---- MODULE Spec2Model ----
(***************************************************************************)
(* Model of the air-quality anomaly pipeline.                              *)
(*                                                                         *)
(*   stage 1  aqi_analysis/ge_12_24.py   load_and_transform_averages,      *)
(*                                       init_worker, process_and_plot,    *)
(*                                       main                              *)
(*   stage 2  aqi_analysis/stl_12_24.py  process_series_stl,               *)
(*                                       process_file, the batch loop      *)
(*                                                                         *)
(* Numbers.  A measured value, a baseline value and an anomaly are kept as *)
(* integers in tenths ("35.5" is 355); a value of a stage-2 series is kept *)
(* as an integer multiple of 1/Scale, so that every linear interpolation   *)
(* the model performs is exact.  The rounding of float32/float64           *)
(* arithmetic is outside the model.                                        *)
(*                                                                         *)
(* Time.  A timestamp is a whole number of hours since the start of the    *)
(* year; an unparseable timestamp (NaT) is the record NaT.                 *)
(***************************************************************************)
EXTENDS Integers, Sequences, FiniteSets, TLC

VARIABLES
    \* ---- stage 2: one call of process_series_stl ----
    series,          \* the argument `series` (hourly grid, NaN where missing)
    final_series,    \* the returned series
    gap_reports,     \* the returned list of gap reports
    stl_path,        \* "none" before the call, then the path that returned
                     \* ("idle" when the specification is about stage 1)
    reapplied,       \* a second call, on the series the first call returned
    \* ---- stage 2: the batch loop over the anomaly CSVs ----
    stl_files,       \* files: the anomaly CSVs found by glob, sorted by path
    stl_batch,       \* where the loop of lines 215-216 is
    stl_results,     \* per file: what process_file did and wrote
    \* ---- stage 1: one call of process_and_plot ----
    raw_file,        \* the raw CSV: the sequence of its rows, or Unreadable
    global_avg_lookup, \* the baseline index bound by init_worker
    report_list,     \* validation findings, in the order they are appended
    major_events,    \* timestamps of the major events recorded
    major_event_rows, \* the list major_events, in the order it was appended
    rerun,           \* a second call on the same file: what it produced
    df_clean,        \* the clean observations (rows of df_clean)
    merged,          \* the anomaly records (rows of merged)
    region_avg,      \* the regional averages (rows of region_avg)
    outputs,         \* the artifacts written for the file
    ret,             \* "none" before the call, then what the call returned
                     \* ("idle" when the specification is about stage 2)
    \* ---- stage 1: main() and its pool of workers ----
    main_pc,         \* where main() is ("idle" when the specification is about
                     \* a single call)
    avg_sources,     \* the historical-average file of each item
    df_avg_lookup,   \* the baseline index main() holds
    pool_files,      \* files: the raw files found by glob, sorted by path
    futures,         \* future_to_file: the state of the task of each file
    workers,         \* the worker processes: their global_avg_lookup and task
    artifacts        \* the files under output_root, by kind and file name

batchVars == <<stl_files, stl_batch, stl_results>>
stlVars == <<series, final_series, gap_reports, stl_path, reapplied, batchVars>>
poolVars == <<pool_files, futures, workers, artifacts>>
mainVars == <<main_pc, avg_sources, df_avg_lookup, poolVars>>
PoolIdle ==
    /\ pool_files = <<>>
    /\ futures = <<>>
    /\ workers = <<>>
    /\ artifacts = <<>>

anomVars == <<raw_file, global_avg_lookup, report_list, major_events,
              major_event_rows, rerun,
              df_clean, merged, region_avg, outputs, ret>>
vars == <<series, final_series, gap_reports, stl_path, reapplied,
          stl_files, stl_batch, stl_results,
          raw_file, global_avg_lookup, report_list, major_events,
          major_event_rows, rerun,
          df_clean, merged, region_avg, outputs, ret,
          main_pc, avg_sources, df_avg_lookup,
          pool_files, futures, workers, artifacts>>

(***************************************************************************)
(* Bounds of the model and constants of the program                        *)
(***************************************************************************)
\* longest free part of a stage-2 input series
MaxLen == 4
\* defined values of a stage-2 input series are 0..MaxVal
MaxVal == 1
\* amplitudes of the seasonal component the decomposition may return
MaxSeasonal == 1

TOLERANCE_HOURS == 2
STL_PERIOD == 24

\* first hour of the model's time axis: day-of-year 45, hour 10
T0 == 44 * 24 + 10

(***************************************************************************)
(* Small helpers                                                           *)
(***************************************************************************)
Min(a, b) == IF a <= b THEN a ELSE b
Max(a, b) == IF a >= b THEN a ELSE b

RECURSIVE Gcd(_, _)
Gcd(a, b) == IF b = 0 THEN a ELSE Gcd(b, a % b)

RECURSIVE LcmUpTo(_)
LcmUpTo(n) == IF n <= 1 THEN 1 ELSE (LcmUpTo(n - 1) * n) \div Gcd(LcmUpTo(n - 1), n)

\* one unit of a stage-2 value is 1/Scale: every slope over at most MaxLen + 1
\* hours is then a whole number
Scale == LcmUpTo(MaxLen + 1)

\* the elements of a finite set of integers, ascending
RECURSIVE SortedSeq(_)
SortedSeq(S) ==
    IF S = {} THEN <<>>
    ELSE LET m == CHOOSE x \in S : \A y \in S : x <= y
         IN  <<m>> \o SortedSeq(S \ {m})

(***************************************************************************)
(* Stage 2: process_series_stl                                             *)
(***************************************************************************)
NaN == [isna |-> TRUE, v |-> 0]
Num(x) == [isna |-> FALSE, v |-> x]

\* the timestamp of position i of the hourly index
IndexAt(i) == T0 + (i - 1)

\* Timestamp.strftime('%Y-%m-%d %H:%M'): date, hour and minute of the timestamp
Strftime(t) == [date |-> t \div 24, hh |-> t % 24, mm |-> 0]

\* series.isna()
IsNa(s) == [i \in 1..Len(s) |-> s[i].isna]

\* is_nan.ne(is_nan.shift()): the first row differs from the shifted-in NaN
NeShift(isnan) == [i \in 1..Len(isnan) |-> i = 1 \/ isnan[i] # isnan[i - 1]]

\* .cumsum() of the booleans
Cumsum(b) == [i \in 1..Len(b) |-> Cardinality({j \in 1..i : b[j]})]

\* nan_groups, line 69
NanGroups(s) == Cumsum(NeShift(IsNa(s)))

\* series[is_nan].groupby(nan_groups): the positions of each block, keyed by
\* group number; groupby iterates the keys in ascending order
NanBlockKeys(s) == {NanGroups(s)[i] : i \in {j \in 1..Len(s) : IsNa(s)[j]}}
NanBlock(s, g) == {i \in 1..Len(s) : IsNa(s)[i] /\ NanGroups(s)[i] = g}

BlockFirst(B) == CHOOSE i \in B : \A j \in B : i <= j
BlockLast(B) == CHOOSE i \in B : \A j \in B : i >= j

GapReport(B) ==
    [duration_hours |-> Cardinality(B),
     start_time |-> Strftime(IndexAt(BlockFirst(B))),
     end_time |-> Strftime(IndexAt(BlockLast(B)))]

\* lines 72-86: one report per block longer than the tolerance
RECURSIVE ReportsOf(_, _)
ReportsOf(s, keys) ==
    IF keys = <<>> THEN <<>>
    ELSE LET B == NanBlock(s, Head(keys))
         IN  (IF Cardinality(B) > TOLERANCE_HOURS THEN <<GapReport(B)>> ELSE <<>>)
             \o ReportsOf(s, Tail(keys))

GapReports(s) == ReportsOf(s, SortedSeq(NanBlockKeys(s)))

\* pandas _interp_limit(invalid, limit, 0): the positions that stay NaN because
\* they lie more than `limit` after the last valid value, and the leading NaNs
\* among the first limit + 1 positions
InterpLimit(invalid, limit) ==
    LET n == Len(invalid)
        lim == Min(limit, n)
    IN  {i \in 1..n : i > lim /\ \A j \in (i - lim)..i : invalid[j]}
        \cup {i \in 1..Min(lim + 1, n) : \A j \in 1..i : invalid[j]}

\* numpy.interp at position i over the valid points: linear between the
\* neighbouring valid points, constant outside them
NpInterp(s, i) ==
    LET valid == {j \in 1..Len(s) : ~s[j].isna}
        lefts == {j \in valid : j <= i}
        rights == {j \in valid : j >= i}
        l == CHOOSE j \in lefts : \A k \in lefts : k <= j
        r == CHOOSE j \in rights : \A k \in rights : k >= j
    IN  IF lefts = {} THEN s[CHOOSE j \in valid : \A k \in valid : j <= k].v
        ELSE IF rights = {} THEN s[l].v
        ELSE IF l = r THEN s[l].v
        ELSE s[l].v + ((s[r].v - s[l].v) * (i - l)) \div (r - l)

\* series.interpolate(method='linear', limit=limit), limit_direction forward
Interpolate(s, limit) ==
    LET invalid == IsNa(s)
        valid == {j \in 1..Len(s) : ~invalid[j]}
        first_valid == CHOOSE j \in valid : \A k \in valid : j <= k
        start_nans == 1..(first_valid - 1)
        preserve_nans == start_nans \cup InterpLimit(invalid, limit)
    IN  IF valid = {} \/ valid = 1..Len(s) THEN s
        ELSE [i \in 1..Len(s) |->
                IF ~invalid[i] THEN s[i]
                ELSE IF i \in preserve_nans THEN NaN
                ELSE Num(NpInterp(s, i))]

\* series_interp.fillna(0), line 96
FillNa0(s) == [i \in 1..Len(s) |-> IF s[i].isna THEN Num(0) ELSE s[i]]

\* series_for_stl - res.seasonal, line 107
Deseasonalize(s, seasonal) == [i \in 1..Len(s) |-> Num(s[i].v - seasonal[i])]

\* mutant of MaskLargeGaps: the break gaps are not put back
MaskLargeGaps_Skipped(s, mask) == s

\* deseasonalized.mask(mask_large_gaps), line 110
MaskLargeGaps(s, mask) == [i \in 1..Len(s) |-> IF mask[i] THEN NaN ELSE s[i]]

\* What STL(...).fit() may do on a complete series of length n: raise, or
\* return a seasonal component (a defined number at every position).
Phase(i) == IF (i % STL_PERIOD) < (STL_PERIOD \div 2) THEN 1 ELSE -1
StlOutcomes(n) ==
    {[raised |-> TRUE, seasonal |-> <<>>]}
    \cup {[raised |-> FALSE, seasonal |-> [i \in 1..n |-> a * Scale * Phase(i)]]
            : a \in 0..MaxSeasonal}

\* mutant of LongEnough: two full periods are enough
LongEnough_TwoPeriods(n) == n >= STL_PERIOD * 2

\* line 100: if len(series_for_stl) > STL_PERIOD * 2
LongEnough(n) == n > STL_PERIOD * 2

\* the path by which the call returns
StlPath(s, outcome) ==
    IF \A i \in 1..Len(s) : IsNa(s)[i] THEN "all_nan"
    ELSE IF LongEnough(Len(s))
         THEN (IF outcome.raised THEN "fallback" ELSE "stl")
         ELSE "short"

\* the series process_series_stl returns, lines 63-117
FinalSeries(s, outcome) ==
    LET series_interp == Interpolate(s, TOLERANCE_HOURS)
        mask_large_gaps == IsNa(series_interp)
        series_for_stl == FillNa0(series_interp)
    IN  CASE StlPath(s, outcome) = "all_nan" -> s
          [] StlPath(s, outcome) = "stl" ->
                MaskLargeGaps(Deseasonalize(series_for_stl, outcome.seasonal),
                              mask_large_gaps)
          [] OTHER -> series_interp

\* the gap reports process_series_stl returns
FinalReports(s) ==
    IF \A i \in 1..Len(s) : IsNa(s)[i] THEN <<>> ELSE GapReports(s)

\* Input series: a free part of 1..MaxLen hours over {NaN, 0..MaxVal}, with or
\* without 2 * STL_PERIOD defined hours before and after it, so that both the
\* short-series path and the decomposition path are taken.
Cells == {NaN} \cup {Num(x * Scale) : x \in 0..MaxVal}
Cores == UNION {[1..n -> Cells] : n \in 1..MaxLen}
Pad(n) == [i \in 1..n |-> Num(0)]
InputSeries ==
    {Pad(l) \o c \o Pad(r) : l \in {0, 2 * STL_PERIOD}, r \in {0, 2 * STL_PERIOD},
                             c \in Cores}

\* Input series around the length test of line 100: 2 * STL_PERIOD - 2 defined
\* hours and the free part, lengths 2 * STL_PERIOD - 1 to
\* 2 * STL_PERIOD - 2 + MaxLen.
BoundarySeries == {Pad(2 * STL_PERIOD - 2) \o c : c \in Cores}

\* a specification about one stage leaves the other stage idle
\* no second call has been made
NotReapplied == [done |-> FALSE, final_series |-> <<>>, gap_reports |-> <<>>]

\* the batch loop of stage 2 is not in use
BatchIdle ==
    /\ stl_files = <<>>
    /\ stl_batch = [state |-> "idle", i |-> 0]
    /\ stl_results = <<>>

\* no single call of process_series_stl is followed
SeriesIdle ==
    /\ series = <<>>
    /\ final_series = <<>>
    /\ gap_reports = <<>>
    /\ stl_path = "idle"
    /\ reapplied = NotReapplied

StlIdle == SeriesIdle /\ BatchIdle

MainIdle ==
    /\ main_pc = "idle"
    /\ avg_sources = <<>>
    /\ df_avg_lookup = <<>>
    /\ PoolIdle

\* no second call has been made
NoRerun == [done |-> FALSE, report_list |-> <<>>, major_event_rows |-> <<>>,
            merged |-> <<>>]

AnomIdle ==
    /\ raw_file = <<>>
    /\ global_avg_lookup = <<>>
    /\ report_list = <<>>
    /\ major_events = {}
    /\ major_event_rows = <<>>
    /\ rerun = NoRerun
    /\ df_clean = <<>>
    /\ merged = <<>>
    /\ region_avg = <<>>
    /\ outputs = {}
    /\ ret = "idle"

StlInit ==
    /\ series \in InputSeries
    /\ final_series = <<>>
    /\ gap_reports = <<>>
    /\ stl_path = "none"
    /\ reapplied = NotReapplied
    /\ BatchIdle
    /\ AnomIdle
    /\ MainIdle

\* one call of process_series_stl(series, site, item, filename)
ProcessSeriesStl ==
    /\ stl_path = "none"
    /\ \E outcome \in StlOutcomes(Len(series)) :
          /\ final_series' = FinalSeries(series, outcome)
          /\ stl_path' = StlPath(series, outcome)
    /\ gap_reports' = FinalReports(series)
    /\ UNCHANGED <<series, reapplied>>
    /\ UNCHANGED batchVars
    /\ UNCHANGED anomVars
    /\ UNCHANGED mainVars

StlNext == ProcessSeriesStl

BoundaryInit ==
    /\ series \in BoundarySeries
    /\ final_series = <<>>
    /\ gap_reports = <<>>
    /\ stl_path = "none"
    /\ reapplied = NotReapplied
    /\ BatchIdle
    /\ AnomIdle
    /\ MainIdle

SpecStl == StlInit /\ [][StlNext]_vars

SpecStlBoundary == BoundaryInit /\ [][StlNext]_vars

\* process_series_stl called again, on the series the first call returned
ReapplySeriesStl ==
    /\ stl_path \notin {"none", "idle"}
    /\ ~reapplied.done
    /\ \E outcome \in StlOutcomes(Len(final_series)) :
          reapplied' = [done |-> TRUE,
                        final_series |-> FinalSeries(final_series, outcome),
                        gap_reports |-> FinalReports(final_series)]
    /\ UNCHANGED <<series, final_series, gap_reports, stl_path>>
    /\ UNCHANGED batchVars
    /\ UNCHANGED anomVars
    /\ UNCHANGED mainVars

ReapplyNext == ProcessSeriesStl \/ ReapplySeriesStl

SpecReapply == StlInit /\ [][ReapplyNext]_vars

RECURSIVE SumSeq(_)
SumSeq(xs) == IF xs = <<>> THEN 0 ELSE Head(xs) + SumSeq(Tail(xs))

(***************************************************************************)
(* Stage 1: the data of ge_12_24.py                                        *)
(***************************************************************************)
\* Stations.  areas, lines 46-63, puts "Shanhua" and "Tainan" in the region
\* "S" and "Taitung" in the region "E"; "Kinmen" is in no region.  SiteRank and
\* RegionRank are the orders in which groupby sorts the names as they are
\* written in the data.
Sites == {"Tainan", "Kinmen"}
RegionSites == {"Shanhua", "Tainan", "Taitung", "Kinmen"}
SiteRank(s) ==
    CASE s = "Shanhua" -> 1
      [] s = "Tainan" -> 2
      [] s = "Taitung" -> 3
      [] OTHER -> 4
SiteToRegion(s) ==
    CASE s \in {"Shanhua", "Tainan"} -> "S"
      [] s = "Taitung" -> "E"
      [] OTHER -> "none"
Regions == {"S", "E"}
RegionRank(g) == IF g = "S" THEN 1 ELSE 2
\* "AVG_" + region, line 244
RegionLabel(g) == IF g = "S" THEN "AVG_S" ELSE "AVG_E"

\* items_info, lines 66-82: O3 is 0..600 (in tenths); "XX" has no entry.
\* ItemRank is the order in which groupby and sort_index sort the item names.
Items == {"O3"}
ItemRank(i) ==
    CASE i = "CO" -> 1
      [] i = "O3" -> 2
      [] OTHER -> 3
HasItemInfo(i) == i = "O3"
ItemMin(i) == 0
ItemMax(i) == 600 * 10

\* a parsed datetime: NaT, or an hour of the year
NaT == [nat |-> TRUE, t |-> 0]
Dt(h) == [nat |-> FALSE, t |-> h]

\* the hours a raw row may carry
Hours == {T0, T0 + 1, T0 + 2}

\* Literals of the value column.  read_csv turns the empty field into NaN;
\* pd.to_numeric(errors='coerce') parses a number and turns anything else
\* into NaN.  Numbers are in tenths.
ValueLiterals == {"", "x", "35.5", "601"}
IsNullLit(l) == l = ""
ToNumeric(l) ==
    CASE l = "35.5" -> Num(355)
      [] l = "601" -> Num(6010)
      [] l = "600" -> Num(6000)
      [] l = "0" -> Num(0)
      [] l = "-0.1" -> Num(0 - 1)
      [] l = "30.0" -> Num(300)
      [] l = "31.0" -> Num(310)
      [] l = "40.0" -> Num(400)
      [] OTHER -> NaN

\* Timestamp.dayofyear and Timestamp.hour, lines 229-230
DayOfYear(h) == h \div 24 + 1
HourOf(h) == h % 24

(***************************************************************************)
(* Stage 1: load_and_transform_averages, lines 102-134                     *)
(***************************************************************************)
\* A source table of one item: its column labels in file order and its station
\* rows in file order, each row holding one cell literal per column.
ColumnLabels == <<"45_10", "45_11", "45_12">>

\* str.split('_', expand=True) and astype('int16') / astype('int8'): the two
\* numbers of a label, whatever they are; the label "note" has no number and
\* astype raises on it
LabelParses(c) == c # "note"
LabelDay(c) ==
    CASE c = "400_30" -> 400
      [] c = "0_24" -> 0
      [] OTHER -> 45
LabelHour(c) ==
    CASE c = "45_10" -> 10
      [] c = "45_11" -> 11
      [] c = "400_30" -> 30
      [] c = "0_24" -> 24
      [] OTHER -> 12

\* df.melt(id_vars=['site']): column by column, and within a column row by row;
\* then the rows whose avg_value is not a number are dropped (line 122)
RECURSIVE MeltRows(_, _, _, _)
MeltRows(item, labels, table, c) ==
    IF table = <<>> THEN <<>>
    ELSE LET cell == ToNumeric(Head(table).cells[c])
             e == [item |-> item, site |-> Head(table).site,
                   day_of_year |-> LabelDay(labels[c]),
                   hour |-> LabelHour(labels[c]),
                   avg_value |-> cell.v]
         IN  (IF cell.isna THEN <<>> ELSE <<e>>)
             \o MeltRows(item, labels, Tail(table), c)

RECURSIVE MeltColumns(_, _, _, _)
MeltColumns(item, labels, table, c) ==
    IF c > Len(labels) THEN <<>>
    ELSE MeltRows(item, labels, table, c) \o MeltColumns(item, labels, table, c + 1)

\* the rank of an index key under sort_index
KeyRank(e) ==
    ((ItemRank(e.item) * 10 + SiteRank(e.site)) * 1000 + e.day_of_year) * 100 + e.hour

\* sort_index (stable): entries by key, equal keys in their order of arrival
RECURSIVE SortIndex(_)
SortIndex(es) ==
    IF es = <<>> THEN <<>>
    ELSE LET m == CHOOSE k \in 1..Len(es) :
                    /\ \A j \in 1..Len(es) : KeyRank(es[k]) <= KeyRank(es[j])
                    /\ \A j \in 1..(k - 1) : KeyRank(es[j]) # KeyRank(es[k])
         IN  <<es[m]>> \o SortIndex([j \in 1..(Len(es) - 1) |->
                                        IF j < m THEN es[j] ELSE es[j + 1]])

\* The historical-average file of one item: it does not exist (line 108),
\* read_csv raises on it (line 125), it has no station column (line 112), or
\* it is a table with its column labels.
AbsentSource == [kind |-> "absent", labels |-> <<>>, table |-> <<>>]
UnreadableSource == [kind |-> "unreadable", labels |-> <<>>, table |-> <<>>]
NoSiteSource == [kind |-> "no_site", labels |-> <<>>, table |-> <<>>]
LabelledSource(labels, table) == [kind |-> "table", labels |-> labels, table |-> table]
TableSource(table) == LabelledSource(ColumnLabels, table)

\* lines 109-126: the try block of one item gives a frame, unless read_csv or
\* astype raises or the station column is missing
GivesFrame(src) ==
    /\ src.kind = "table"
    /\ \A c \in 1..Len(src.labels) : LabelParses(src.labels[c])

\* items_info.keys() in dictionary order, for the items that have a file here
AvgItems == <<"CO", "O3">>

\* mutant of AllAvgList: one try around the whole loop, so that the first
\* item that raises ends the loading of the items after it
RECURSIVE AllAvgList_StopAtBad(_, _)
AllAvgList_StopAtBad(items, sources) ==
    IF items = <<>> THEN <<>>
    ELSE LET src == sources[Head(items)]
         IN  IF src.kind = "unreadable" \/ (src.kind = "table" /\ ~GivesFrame(src))
             THEN <<>>
             ELSE (IF GivesFrame(src)
                   THEN <<MeltColumns(Head(items), src.labels, src.table, 1)>>
                   ELSE <<>>)
                  \o AllAvgList_StopAtBad(Tail(items), sources)

\* lines 106-126: the frames appended to all_avg_list, item by item
RECURSIVE AllAvgList(_, _)
AllAvgList(items, sources) ==
    IF items = <<>> THEN <<>>
    ELSE LET src == sources[Head(items)]
         IN  (IF GivesFrame(src)
              THEN <<MeltColumns(Head(items), src.labels, src.table, 1)>>
              ELSE <<>>)
             \o AllAvgList(Tail(items), sources)

\* pd.concat(all_avg_list, ignore_index=True), line 131
RECURSIVE Concat(_)
Concat(frames) == IF frames = <<>> THEN <<>> ELSE Head(frames) \o Concat(Tail(frames))

\* lines 128-134: None when no item gave a frame, else the sorted index
LoadAverages(sources) ==
    LET all_avg_list == AllAvgList(AvgItems, sources)
    IN  IF all_avg_list = <<>> THEN [none |-> TRUE, index |-> <<>>]
        ELSE [none |-> FALSE, index |-> SortIndex(Concat(all_avg_list))]

\* the index built when O3 is the only item with a file, holding `table`
OnlyO3(table) == [i \in {"CO", "O3"} |-> IF i = "O3" THEN TableSource(table) ELSE AbsentSource]
LoadAndTransformAverages(table) == LoadAverages(OnlyO3(table)).index

\* The historical tables of the model.  Row TainanA leaves 45_12 empty; a table
\* may list Tainan a second time (row TainanB), as a hand-merged table does.
TainanA == [site |-> "Tainan", cells |-> <<"30.0", "31.0", "">>]
TainanB == [site |-> "Tainan", cells |-> <<"", "40.0", "">>]
AvgTables == {<<TainanA>>, <<TainanA, TainanB>>}

\* The table of the regional checks: every station has a value for 45_10, and
\* Taitung has none for 45_11.
ShanhuaA == [site |-> "Shanhua", cells |-> <<"31.0", "40.0", "">>]
TaitungA == [site |-> "Taitung", cells |-> <<"30.0", "", "">>]
KinmenA == [site |-> "Kinmen", cells |-> <<"40.0", "40.0", "">>]
RegionTable == <<ShanhuaA, TainanA, TaitungA, KinmenA>>


(***************************************************************************)
(* Stage 1: process_and_plot, lines 144-304                                *)
(***************************************************************************)
\* A raw row: datetime as pd.to_datetime(errors='coerce') parses it (line 154),
\* site, item, and the literal of the value column (dtype object, line 153).
RawRows == [datetime : {NaT} \cup {Dt(h) : h \in Hours},
            site : Sites, item : Items, value : ValueLiterals]

Finding(type, site, item, count, lit, value) ==
    [type |-> type, site |-> site, item |-> item,
     count |-> count, lit |-> lit, value |-> value]

\* the (site, item) keys of a sequence of rows, in groupby's sorted order
GroupRank(k) == SiteRank(k[1]) * 10 + ItemRank(k[2])
RECURSIVE SortGroups(_)
SortGroups(S) ==
    IF S = {} THEN <<>>
    ELSE LET m == CHOOSE k \in S : \A j \in S : GroupRank(k) <= GroupRank(j)
         IN  <<m>> \o SortGroups(S \ {m})
GroupKeys(rows) == SortGroups({<<rows[k].site, rows[k].item>> : k \in 1..Len(rows)})
GroupOf(rows, key) == SelectSeq(rows, LAMBDA r : r.site = key[1] /\ r.item = key[2])

RECURSIVE SortItems(_)
SortItems(S) ==
    IF S = {} THEN <<>>
    ELSE LET m == CHOOSE k \in S : \A j \in S : ItemRank(k) <= ItemRank(j)
         IN  <<m>> \o SortItems(S \ {m})
ItemKeys(rows) == SortItems({rows[k].item : k \in 1..Len(rows)})

\* lines 158-160: the hourly grid from the smallest to the largest timestamp
ParsedTimes(rows) == {rows[k].datetime.t : k \in {j \in 1..Len(rows) : ~rows[j].datetime.nat}}
MinDt(rows) == LET S == ParsedTimes(rows) IN CHOOSE a \in S : \A b \in S : a <= b
MaxDt(rows) == LET S == ParsedTimes(rows) IN CHOOSE a \in S : \A b \in S : a >= b
FullRange(rows) == MinDt(rows)..MaxDt(rows)

\* lines 163-171: one finding per (site, item) with null values, with the count
NullFindings(rows) ==
    LET null_rows == SelectSeq(rows, LAMBDA r : IsNullLit(r.value))
        keys == GroupKeys(null_rows)
    IN  [k \in 1..Len(keys) |->
            Finding("null_value", keys[k][1], keys[k][2],
                    Len(GroupOf(null_rows, keys[k])), "", 0)]

\* mutant of InvalidTextMask: the `& df['value'].notna()` is left out
InvalidTextMask_NullToo(r) == ToNumeric(r.value).isna

\* lines 174-183: one finding per row whose value is not null and not numeric
InvalidTextMask(r) == ToNumeric(r.value).isna /\ ~IsNullLit(r.value)
InvalidTextFindings(rows) ==
    LET bad_rows == SelectSeq(rows, InvalidTextMask)
    IN  [k \in 1..Len(bad_rows) |->
            Finding("invalid_text", bad_rows[k].site, bad_rows[k].item,
                    0, bad_rows[k].value, 0)]

\* lines 185-187: dropna(subset=['datetime', 'numeric_value']); the value column
\* becomes the number
DropnaKeeps(r) == ~r.datetime.nat /\ ~ToNumeric(r.value).isna
Numeric(rows) ==
    LET kept == SelectSeq(rows, DropnaKeeps)
    IN  [k \in 1..Len(kept) |->
            [datetime |-> kept[k].datetime.t, site |-> kept[k].site,
             item |-> kept[k].item, value |-> ToNumeric(kept[k].value).v]]

\* mutant of OutOfBound: the limits themselves are out of bound
OutOfBound_Strict(r) ==
    HasItemInfo(r.item) /\ (r.value <= ItemMin(r.item) \/ r.value >= ItemMax(r.item))

\* mutant of OutOfBound: an item without an entry in items_info is out of bound
OutOfBound_UnknownRejected(r) ==
    ~HasItemInfo(r.item) \/ r.value < ItemMin(r.item) \/ r.value > ItemMax(r.item)

\* lines 192-194: `if info:` and the mask of the values outside [min, max]
OutOfBound(r) ==
    HasItemInfo(r.item) /\ (r.value < ItemMin(r.item) \/ r.value > ItemMax(r.item))

\* errs.head(5), line 197
Head5(rows) == SubSeq(rows, 1, Min(5, Len(rows)))

\* lines 191-203, one item group: its findings and what is left of the group
RangeFindings(group) ==
    LET errs == Head5(SelectSeq(group, OutOfBound))
    IN  [k \in 1..Len(errs) |->
            Finding("out_of_range", errs[k].site, errs[k].item, 0, "", errs[k].value)]
RangeKept(group) == SelectSeq(group, LAMBDA r : ~OutOfBound(r))

RECURSIVE RangeCheck(_, _)
RangeCheck(df, items) ==
    IF items = <<>> THEN [findings |-> <<>>, clean |-> <<>>]
    ELSE LET group == SelectSeq(df, LAMBDA r : r.item = Head(items))
             rest == RangeCheck(df, Tail(items))
         IN  [findings |-> RangeFindings(group) \o rest.findings,
              clean |-> RangeKept(group) \o rest.clean]

\* lines 209-218: a finding for each (site, item) group of df_clean that has
\* fewer rows than the grid has hours
GroupTimes(group) == {group[k].datetime : k \in 1..Len(group)}
\* mutant of MissingCount: the rows are counted, not the distinct timestamps
MissingCount_Rows(group, expected_len) == expected_len - Len(group)

\* lines 212-213
MissingCount(group, expected_len) == expected_len - Cardinality(GroupTimes(group))

RECURSIVE MissingFindings(_, _, _)
MissingFindings(clean, keys, expected_len) ==
    IF keys = <<>> THEN <<>>
    ELSE LET group == GroupOf(clean, Head(keys))
             missing_count == MissingCount(group, expected_len)
         IN  (IF Len(group) < expected_len
              THEN <<Finding("missing_timestamps", Head(keys)[1], Head(keys)[2],
                             missing_count, "", 0)>>
              ELSE <<>>)
             \o MissingFindings(clean, Tail(keys), expected_len)

\* lines 221-226: the hours of the grid that no clean observation carries
MissingTimes(clean, full_range) == full_range \ GroupTimes(clean)

\* lines 229-233: the entries of the index with the key of the observation
Matches(r, lookup) ==
    SelectSeq(lookup, LAMBDA e : /\ e.item = r.item
                             /\ e.site = r.site
                             /\ e.day_of_year = DayOfYear(r.datetime)
                             /\ e.hour = HourOf(r.datetime))

\* mutant of Anomaly: a negative anomaly is clamped to zero
Anomaly_Clamped(value, avg_value) == Max(0, value - avg_value)

\* line 234
Anomaly(value, avg_value) == value - avg_value

\* lines 233-235: the inner join, in the order of df_clean, with the anomaly
RECURSIVE Join(_, _)
Join(clean, lookup) ==
    IF clean = <<>> THEN <<>>
    ELSE LET r == Head(clean)
             ms == Matches(r, lookup)
         IN  [k \in 1..Len(ms) |->
                [datetime |-> r.datetime, site |-> r.site, item |-> r.item,
                 value |-> r.value, avg_value |-> ms[k].avg_value,
                 anomaly |-> Anomaly(r.value, ms[k].avg_value)]]
             \o Join(Tail(clean), lookup)

\* lines 240-243, 255: the items of the anomaly records of mapped stations
RegionItems(m) ==
    {m[k].item : k \in {j \in 1..Len(m) : SiteToRegion(m[j].site) # "none"}}

\* mutant of Mean: a region of two stations is averaged over both of them,
\* whether they have a record or not
Mean_OverTwoStations(xs) == [num |-> SumSeq(xs), den |-> 2]

\* Series.mean(): the sum over the count, kept as the fraction num / den
Mean(xs) == [num |-> SumSeq(xs), den |-> Len(xs)]

\* lines 240-244: the anomaly records of the mapped stations, grouped by
\* (datetime, item, region) in sorted order, each group with its mean
RegionKeyRank(k) == (k[1] * 10 + ItemRank(k[2])) * 10 + RegionRank(k[3])
RECURSIVE SortRegionKeys(_)
SortRegionKeys(S) ==
    IF S = {} THEN <<>>
    ELSE LET m == CHOOSE k \in S : \A j \in S : RegionKeyRank(k) <= RegionKeyRank(j)
         IN  <<m>> \o SortRegionKeys(S \ {m})
RegionAvg(m) ==
    LET valid_regions == SelectSeq(m, LAMBDA r : SiteToRegion(r.site) # "none")
        keys == SortRegionKeys({<<valid_regions[k].datetime, valid_regions[k].item,
                                  SiteToRegion(valid_regions[k].site)>> :
                                    k \in 1..Len(valid_regions)})
        GroupAnomalies(key) ==
            LET g == SelectSeq(valid_regions,
                               LAMBDA r : /\ r.datetime = key[1]
                                          /\ r.item = key[2]
                                          /\ SiteToRegion(r.site) = key[3])
            IN  [k \in 1..Len(g) |-> g[k].anomaly]
    IN  [k \in 1..Len(keys) |->
            [datetime |-> keys[k][1], item |-> keys[k][2], region |-> keys[k][3],
             site |-> RegionLabel(keys[k][3]),
             anomaly |-> Mean(GroupAnomalies(keys[k]))]]

\* The seed of the interpreter's hashing (PYTHONHASHSEED, drawn afresh by each
\* run of the program unless it is set): two of its values.
HashSeeds == {0, 1}

\* lines 222-226: `for t in missing_times` walks a Python set of Timestamps.
\* The order of the walk follows the hashes of the elements, which follow the
\* seed; the two orders kept here are the ascending and the descending one.
SetOrder(S, hash_seed) ==
    LET up == SortedSeq(S)
    IN  IF hash_seed = 0 THEN up
        ELSE [k \in 1..Len(up) |-> up[Len(up) + 1 - k]]

\* lines 291-294: the reports that are written when the end is reached
Reports(findings, events) ==
    (IF findings # <<>> THEN {"report"} ELSE {})
    \cup (IF events # {} THEN {"major_event"} ELSE {})

Result(findings, events, clean, m, out, r) ==
    [report_list |-> findings, major_events |-> events, df_clean |-> clean,
     merged |-> m, region_avg |-> RegionAvg(m), outputs |-> out, ret |-> r]

\* mutant of Handler: the exception is swallowed without a trace
Handler_Silent(written) == written

\* lines 301-304: the handler adds CRITICAL_ERROR_<file>.txt to what the call
\* had written when the exception was raised
Handler(written) == written \cup {"critical_error"}

\* The whole call.  `plot_ok` says whether the drawing loop of lines 257-288
\* runs through; the file is [readable, rows].
ProcessAndPlot(file, lookup, plot_ok) ==
    LET rows == file.rows
        early == NullFindings(rows) \o InvalidTextFindings(rows)
        df == Numeric(rows)
        checked == RangeCheck(df, ItemKeys(df))
        clean == checked.clean
        full_range == FullRange(rows)
        findings == early \o checked.findings
                    \o MissingFindings(clean, GroupKeys(clean), Cardinality(full_range))
        events == MissingTimes(clean, full_range)
        m == Join(clean, lookup)
    IN  IF ~file.readable
        \* read_csv raises: lines 301-304
        THEN Result(<<>>, {}, <<>>, <<>>, Handler({}), "error")
        ELSE IF ParsedTimes(rows) = {}
        \* line 156
        THEN Result(<<>>, {}, <<>>, <<>>, {}, "None")
        ELSE IF df = <<>>
        \* line 205: no item group at all
        THEN Result(early, {}, <<>>, <<>>, {}, "None")
        ELSE IF m = <<>>
        \* line 237
        THEN Result(findings, events, clean, m, {}, "None")
        ELSE IF RegionItems(m) # {} /\ ~plot_ok
        \* an exception while drawing, after the anomaly CSV of line 252
        THEN Result(findings, events, clean, m, Handler({"anomaly_csv"}), "error")
        ELSE IF RegionItems(m) = {}
        \* no item to draw: `del pivot_reg` of line 296 raises on the unbound name
        THEN Result(findings, events, clean, m,
                    Handler({"anomaly_csv"} \cup Reports(findings, events)), "error")
        ELSE Result(findings, events, clean, m,
                    {"anomaly_csv"} \cup Reports(findings, events), "plot_count")

\* most rows of a raw file
MaxRows == 2
RawFiles ==
    {[readable |-> FALSE, rows |-> <<>>]}
    \cup {[readable |-> TRUE, rows |-> rs] :
            rs \in UNION {[1..n -> RawRows] : n \in 0..MaxRows}}

\* nothing of the call has happened yet
AnomFresh ==
    /\ report_list = <<>>
    /\ major_events = {}
    /\ major_event_rows = <<>>
    /\ rerun = NoRerun
    /\ df_clean = <<>>
    /\ merged = <<>>
    /\ region_avg = <<>>
    /\ outputs = {}
    /\ ret = "none"
    /\ StlIdle
    /\ MainIdle

AnomStart ==
    /\ global_avg_lookup \in {LoadAndTransformAverages(tb) : tb \in AvgTables}
    /\ AnomFresh

AnomInit ==
    /\ raw_file \in RawFiles
    /\ AnomStart

\* Files for the coverage checks: every timestamp parses and a value is either
\* empty or the number 35.5, so that longer files can be explored.
MaxCoverageRows == 3
CoverageRows == {r \in RawRows : ~r.datetime.nat /\ r.value \in {"", "35.5"}}
CoverageFiles ==
    {[readable |-> TRUE, rows |-> rs] :
        rs \in UNION {[1..n -> CoverageRows] : n \in 1..MaxCoverageRows}}

CoverageInit ==
    /\ raw_file \in CoverageFiles
    /\ AnomStart

\* Files for the range checks: every timestamp parses and every value is a
\* number.  The values of O3 are its two limits and the nearest value beyond
\* each; "XX" is an item that items_info does not list.  A file is up to
\* MaxRangeRows such rows followed by up to MaxOutOfRange copies of one O3 row
\* that is out of range.
MaxRangeRows == 3
MaxOutOfRange == 6
RangeRow(i, l) == [datetime |-> Dt(T0), site |-> "Tainan", item |-> i, value |-> l]
RangeRows ==
    {RangeRow("O3", l) : l \in {"-0.1", "0", "600", "601"}} \cup {RangeRow("XX", "601")}
Copies(row, n) == [k \in 1..n |-> row]
RangeFiles ==
    {[readable |-> TRUE, rows |-> rs \o Copies(RangeRow("O3", l), n)] :
        rs \in UNION {[1..m -> RangeRows] : m \in 0..MaxRangeRows},
        l \in {"-0.1", "601"},
        n \in 0..MaxOutOfRange}

RangeInit ==
    /\ raw_file \in RangeFiles
    /\ AnomStart

\* Files for the regional checks: O3 rows of the four stations at two hours,
\* every timestamp parsed and every value a number within range, against the
\* index of RegionTable.
MaxRegionRows == 3
RegionRows ==
    [datetime : {Dt(T0), Dt(T0 + 1)}, site : RegionSites, item : {"O3"},
     value : {"0", "35.5"}]
RegionFiles ==
    {[readable |-> TRUE, rows |-> rs] :
        rs \in UNION {[1..n -> RegionRows] : n \in 1..MaxRegionRows}}

RegionInit ==
    /\ raw_file \in RegionFiles
    /\ global_avg_lookup = LoadAndTransformAverages(RegionTable)
    /\ AnomFresh

\* one task of the pool: process_and_plot(file_path)
ProcessAndPlotCall ==
    /\ ret = "none"
    /\ \E plot_ok \in BOOLEAN, hash_seed \in HashSeeds :
          \E res \in {ProcessAndPlot(raw_file, global_avg_lookup, plot_ok)} :
              /\ report_list' = res.report_list
              /\ major_events' = res.major_events
              /\ major_event_rows' = SetOrder(res.major_events, hash_seed)
              /\ df_clean' = res.df_clean
              /\ merged' = res.merged
              /\ region_avg' = res.region_avg
              /\ outputs' = res.outputs
              /\ ret' = res.ret
    /\ UNCHANGED <<raw_file, global_avg_lookup, rerun>>
    /\ UNCHANGED stlVars
    /\ UNCHANGED mainVars

AnomNext == ProcessAndPlotCall

SpecAnom == AnomInit /\ [][AnomNext]_vars

SpecCoverage == CoverageInit /\ [][AnomNext]_vars

SpecRange == RangeInit /\ [][AnomNext]_vars

SpecRegion == RegionInit /\ [][AnomNext]_vars

(***************************************************************************)
(* Stage 1: main(), lines 310-339                                          *)
(***************************************************************************)
\* The sources of the baseline checks.  The O3 table has up to MaxStationRows
\* station rows in file order, each with a cell for 45_10 and for 45_11 and an
\* empty cell for 45_12; the CO file is absent, broken or a one-row table.
MaxStationRows == 2
StationRows ==
    {[site |-> st, cells |-> <<a, b, "">>] :
        st \in Sites, a \in {"", "30.0", "40.0"}, b \in {"", "31.0"}}
\* the labels a table may carry: the three hours of day 45, labels beyond the
\* calendar, or a column that is not a day_hour label
LabelChoices ==
    {ColumnLabels, <<"45_10", "400_30", "0_24">>, <<"45_10", "note", "45_12">>}
O3Sources ==
    {AbsentSource, UnreadableSource, NoSiteSource}
    \cup {LabelledSource(ls, tb) :
            ls \in LabelChoices,
            tb \in UNION {[1..n -> StationRows] : n \in 0..MaxStationRows}}
COSources == {AbsentSource, UnreadableSource, NoSiteSource, TableSource(<<KinmenA>>)}
AvgSources == {[i \in {"CO", "O3"} |-> IF i = "CO" THEN c ELSE o] : c \in COSources, o \in O3Sources}

BaselineInit ==
    /\ main_pc = "start"
    /\ avg_sources \in AvgSources
    /\ df_avg_lookup = <<>>
    /\ PoolIdle
    /\ StlIdle
    /\ AnomIdle

\* lines 314-317: df_avg_lookup = load_and_transform_averages(), and main()
\* returns when there is no history
LoadAndTransformAveragesCall ==
    /\ main_pc = "start"
    /\ LET built == LoadAverages(avg_sources)
       IN  /\ df_avg_lookup' = built.index
           /\ main_pc' = IF built.none THEN "no_history" ELSE "loaded"
    /\ UNCHANGED avg_sources
    /\ UNCHANGED poolVars
    /\ UNCHANGED stlVars
    /\ UNCHANGED anomVars

SpecBaseline == BaselineInit /\ [][LoadAndTransformAveragesCall]_vars

(***************************************************************************)
(* Stage 1: the pool of main(), lines 319-334                              *)
(***************************************************************************)
N_WORKERS == 6
Workers == 1..N_WORKERS

\* The raw files of the pool checks: a file read_csv raises on, a file with
\* one clean O3 row, and a file with a text value and a clean row an hour later.
UnreadableFile == [readable |-> FALSE, rows |-> <<>>]
GoodFileA ==
    [readable |-> TRUE,
     rows |-> <<[datetime |-> Dt(T0), site |-> "Tainan", item |-> "O3", value |-> "35.5"]>>]
GoodFileB ==
    [readable |-> TRUE,
     rows |-> <<[datetime |-> Dt(T0), site |-> "Tainan", item |-> "O3", value |-> "x"],
                [datetime |-> Dt(T0 + 1), site |-> "Tainan", item |-> "O3", value |-> "35.5"]>>]
PoolContents == {UnreadableFile, GoodFileA, GoodFileB}

\* glob(base_dir/hourly_*.csv), sorted: the k-th path
MaxPoolFiles == 2
Stem(k) ==
    CASE k = 1 -> "hourly_a"
      [] k = 2 -> "hourly_b"
      [] k = 3 -> "hourly_c"
      [] OTHER -> "hourly_d"
PoolPath(k) == [dir |-> "data", stem |-> Stem(k), ext |-> ".csv"]
PoolFileLists ==
    {[k \in 1..Len(cs) |-> [path |-> PoolPath(k), content |-> cs[k]]] :
        cs \in UNION {[1..m -> PoolContents] : m \in 0..MaxPoolFiles}}

\* the history of the pool checks: no file at all, or the O3 table <<TainanA>>
PoolSources == {[i \in {"CO", "O3"} |-> AbsentSource], OnlyO3(<<TainanA>>)}

\* mutant of FileName: every path gives the same name
FileName_Shared(path) == "hourly"

\* line 146: os.path.splitext(os.path.basename(file_path))[0]
FileName(path) == path.stem

\* mutant of GlobalAfterTask: the task takes the first entry out of the index
GlobalAfterTask_FirstTaken(lookup) ==
    IF lookup = <<>> THEN lookup ELSE Tail(lookup)

\* mutant of GlobalAfterTask: the task uses the index up
GlobalAfterTask_Consumed(lookup) == <<>>

\* process_and_plot only reads global_avg_lookup (the join of line 233 returns
\* a new frame): the worker's index after a task
GlobalAfterTask(lookup) == lookup

\* The files under output_root: anomaly_<name>.csv, report_<name>.csv,
\* major_event_<name>.csv and CRITICAL_ERROR_<name>.txt, each absent or
\* holding the data of its last writer (`by` is the task that wrote it).
OutputKinds == {"anomaly_csv", "report", "major_event", "critical_error"}
OutputNames == {Stem(k) : k \in 1..(MaxPoolFiles + 2)} \cup {"hourly"}
NoFile == [exists |-> FALSE, by |-> 0, data |-> <<>>]
NoArtifacts == [p \in OutputKinds \X OutputNames |-> NoFile]

\* lines 252, 292, 294, 302-303: what a call writes into a file of each kind
AnomalyCsv(m) ==
    [k \in 1..Len(m) |->
        [datetime |-> m[k].datetime, site |-> m[k].site, item |-> m[k].item,
         anomaly |-> m[k].anomaly]]
ArtifactData(kind, res) ==
    CASE kind = "anomaly_csv" -> AnomalyCsv(res.merged)
      [] kind = "report" -> res.report_list
      [] kind = "major_event" -> SortedSeq(res.major_events)
      [] OTHER -> <<>>
WriteArtifacts(art, name, by, res) ==
    [p \in DOMAIN art |->
        IF p[2] = name /\ p[1] \in res.outputs
        THEN [exists |-> TRUE, by |-> by, data |-> ArtifactData(p[1], res)]
        ELSE art[p]]

NotStarted == [started |-> FALSE, global_avg_lookup |-> <<>>, task |-> 0]
Pending == [state |-> "pending", ret |-> "none"]

PoolInit ==
    /\ main_pc = "start"
    /\ avg_sources \in PoolSources
    /\ df_avg_lookup = <<>>
    /\ pool_files \in PoolFileLists
    /\ futures = <<>>
    /\ workers = [w \in Workers |-> NotStarted]
    /\ artifacts = NoArtifacts
    /\ StlIdle
    /\ AnomIdle

\* lines 319-326: the executor is created and every file is submitted
SubmitAll ==
    /\ main_pc = "loaded"
    /\ main_pc' = "pool"
    /\ futures' = [k \in 1..Len(pool_files) |-> Pending]
    /\ UNCHANGED <<avg_sources, df_avg_lookup, pool_files, workers, artifacts>>
    /\ UNCHANGED stlVars
    /\ UNCHANGED anomVars

\* lines 136-138, run once by each worker process when it starts, with the
\* index passed as initargs (line 325).  The processes are alike, so they are
\* numbered in the order in which they start.
InitWorker(w) ==
    /\ main_pc = "pool"
    /\ ~workers[w].started
    /\ \A v \in Workers : v < w => workers[v].started
    /\ workers' = [workers EXCEPT ![w] =
                      [started |-> TRUE, global_avg_lookup |-> df_avg_lookup, task |-> 0]]
    /\ UNCHANGED <<main_pc, avg_sources, df_avg_lookup, pool_files, futures, artifacts>>
    /\ UNCHANGED stlVars
    /\ UNCHANGED anomVars

\* an idle worker takes the oldest pending task from the call queue
TaskStart(w) ==
    /\ main_pc = "pool"
    /\ workers[w].started
    /\ workers[w].task = 0
    /\ \E k \in 1..Len(futures) :
          /\ futures[k].state = "pending"
          /\ \A j \in 1..(k - 1) : futures[j].state # "pending"
          /\ futures' = [futures EXCEPT ![k].state = "running"]
          /\ workers' = [workers EXCEPT ![w].task = k]
    /\ UNCHANGED <<main_pc, avg_sources, df_avg_lookup, pool_files, artifacts>>
    /\ UNCHANGED stlVars
    /\ UNCHANGED anomVars

\* the worker runs process_and_plot(file_path), lines 144-304, to its return
TaskFinish(w) ==
    /\ main_pc = "pool"
    /\ workers[w].task # 0
    /\ LET k == workers[w].task
           file == pool_files[k]
       IN  \E plot_ok \in BOOLEAN :
              \E res \in {ProcessAndPlot(file.content, workers[w].global_avg_lookup, plot_ok)} :
                  /\ artifacts' = WriteArtifacts(artifacts, FileName(file.path), k, res)
                  /\ futures' = [futures EXCEPT ![k] =
                                    [state |-> "finished", ret |-> res.ret]]
                  /\ workers' = [workers EXCEPT ![w] =
                                    [started |-> TRUE,
                                     global_avg_lookup |->
                                        GlobalAfterTask(workers[w].global_avg_lookup),
                                     task |-> 0]]
    /\ UNCHANGED <<main_pc, avg_sources, df_avg_lookup, pool_files>>
    /\ UNCHANGED stlVars
    /\ UNCHANGED anomVars

\* lines 328-334: main() takes the result of a finished future
Collect ==
    /\ main_pc = "pool"
    /\ \E k \in 1..Len(futures) :
          /\ futures[k].state = "finished"
          /\ futures' = [futures EXCEPT ![k].state = "collected"]
    /\ UNCHANGED <<main_pc, avg_sources, df_avg_lookup, pool_files, workers, artifacts>>
    /\ UNCHANGED stlVars
    /\ UNCHANGED anomVars

\* the end of the `with` block, once as_completed has yielded every future
Shutdown ==
    /\ main_pc = "pool"
    /\ \A k \in 1..Len(futures) : futures[k].state = "collected"
    /\ main_pc' = "done"
    /\ UNCHANGED <<avg_sources, df_avg_lookup, pool_files, futures, workers, artifacts>>
    /\ UNCHANGED stlVars
    /\ UNCHANGED anomVars

PoolNext ==
    \/ LoadAndTransformAveragesCall
    \/ SubmitAll
    \/ \E w \in Workers : InitWorker(w)
    \/ \E w \in Workers : TaskStart(w)
    \/ \E w \in Workers : TaskFinish(w)
    \/ Collect
    \/ Shutdown

SpecPool == PoolInit /\ [][PoolNext]_vars

(***************************************************************************)
(* process_and_plot called a second time on the same file, by a worker     *)
(* whose index is the one the first call left (or, in another run of the   *)
(* program, an index loaded from the same averages); the hash seed of the  *)
(* second call is its own.                                                 *)
(***************************************************************************)
ProcessAndPlotAgain ==
    /\ ret \notin {"none", "idle"}
    /\ ~rerun.done
    /\ \E plot_ok \in BOOLEAN, hash_seed \in HashSeeds :
          \E res \in {ProcessAndPlot(raw_file,
                                     GlobalAfterTask(global_avg_lookup), plot_ok)} :
              rerun' = [done |-> TRUE,
                        report_list |-> res.report_list,
                        major_event_rows |-> SetOrder(res.major_events, hash_seed),
                        merged |-> res.merged]
    /\ UNCHANGED <<raw_file, global_avg_lookup, report_list, major_events,
                   major_event_rows, df_clean, merged, region_avg, outputs, ret>>
    /\ UNCHANGED stlVars
    /\ UNCHANGED mainVars

RerunNext == ProcessAndPlotCall \/ ProcessAndPlotAgain

SpecRerun == AnomInit /\ [][RerunNext]_vars

(***************************************************************************)
(* Stage 2: process_file and the batch loop of stl_12_24.py                *)
(*                                                                         *)
(* An anomaly CSV is the sequence of its rows (datetime, site, item,       *)
(* anomaly); the anomaly column is numeric or empty, as stage 1 writes it. *)
(***************************************************************************)
\* most rows of an anomaly CSV whose grid is a few hours long
MaxStlRows == 2
\* most files of a batch
MaxBatchFiles == 2

\* the hours a row may carry: a fillable gap (1 hour) and a break gap (3 hours)
StlHours == {T0, T0 + 2, T0 + 4}
\* an hour that makes the grid of the file longer than 2 * STL_PERIOD
AnchorHour == T0 + 2 * STL_PERIOD + 1
StlValues == {NaN, Num(0), Num(Scale)}
StlRow(d, site, v) == [datetime |-> d, site |-> site, item |-> "O3", anomaly |-> v]
StlRows ==
    {StlRow(d, st, v) : d \in {NaT} \cup {Dt(h) : h \in StlHours},
                        st \in Sites, v \in StlValues}

UnreadableCsv == [readable |-> FALSE, target |-> FALSE, rows |-> <<>>]
CsvFile(rows) == [readable |-> TRUE, target |-> TRUE, rows |-> rows]
\* a table with neither an `anomaly` nor a `value` column
NoTargetCsv ==
    [readable |-> TRUE, target |-> FALSE, rows |-> <<StlRow(Dt(T0), "Tainan", Num(0))>>]

\* rows at AnchorHour: of one group, or of both
Anchors ==
    {<<StlRow(Dt(AnchorHour), "Tainan", Num(0))>>,
     <<StlRow(Dt(AnchorHour), "Tainan", Num(0)),
       StlRow(Dt(AnchorHour), "Kinmen", Num(Scale))>>}
ShortFiles == {CsvFile(rs) : rs \in UNION {[1..n -> StlRows] : n \in 0..MaxStlRows}}
\* the files whose grid is long enough for the decomposition: at most one
\* row at the start of the grid, and the rows at AnchorHour
LongFiles ==
    {CsvFile(rs \o a) : rs \in {<<>>} \cup {<<r>> : r \in StlRows}, a \in Anchors}
StlFiles == ShortFiles \cup LongFiles \cup {UnreadableCsv, NoTargetCsv}

\* mutant of Grouped: every group is handed the rows of the whole file
Grouped_WholeFile(df, key) == df

\* lines 154-156: the rows of one (site, item) group of df.groupby, in file order
Grouped(df, key) == GroupOf(df, key)

\* the elements of q at the positions K, in order
Pick(q, K) == LET idx == SortedSeq(K) IN [k \in 1..Len(idx) |-> q[idx[k]]]

\* mutant of DropDuplicates: keep='last'
DropDuplicates_KeepLast(group) ==
    Pick(group, {k \in 1..Len(group) :
                    \A j \in (k + 1)..Len(group) : group[j].datetime # group[k].datetime})

\* line 160: group[~group.index.duplicated(keep='first')]
DropDuplicates(group) ==
    Pick(group, {k \in 1..Len(group) :
                    \A j \in 1..(k - 1) : group[j].datetime # group[k].datetime})

\* reindex raises on an index with duplicate labels
HasDuplicates(group) ==
    \E j, k \in 1..Len(group) : j # k /\ group[j].datetime = group[k].datetime

\* line 162: group[target_col].reindex(full_range), full_range being lo..hi
Reindex(group, lo, hi) ==
    [i \in 1..(hi - lo + 1) |->
        LET at == {k \in 1..Len(group) : group[k].datetime.t = lo + i - 1}
        IN  IF at = {} THEN NaN ELSE group[CHOOSE k \in at : TRUE].anomaly]

\* What STL(...).fit() does for a group: raise, or return a seasonal
\* component of amplitude a.
OutcomeKinds ==
    {[raised |-> TRUE, a |-> 0]} \cup {[raised |-> FALSE, a |-> a] : a \in 0..MaxSeasonal}
DefaultKind == [raised |-> FALSE, a |-> 0]
OutcomeOf(kind, n) ==
    IF kind.raised THEN [raised |-> TRUE, seasonal |-> <<>>]
    ELSE [raised |-> FALSE, seasonal |-> [i \in 1..n |-> kind.a * Scale * Phase(i)]]

\* lines 72-86 on the series of a group whose index starts at hour lo
GroupGapReports(s, key, lo) ==
    LET keys == SortedSeq(NanBlockKeys(s))
        long == SelectSeq(keys, LAMBDA g : Cardinality(NanBlock(s, g)) > TOLERANCE_HOURS)
    IN  IF \A i \in 1..Len(s) : IsNa(s)[i] THEN <<>>
        ELSE [k \in 1..Len(long) |->
                LET B == NanBlock(s, long[k])
                IN  [site |-> key[1], item |-> key[2],
                     duration_hours |-> Cardinality(B),
                     start_time |-> Strftime(lo + BlockFirst(B) - 1),
                     end_time |-> Strftime(lo + BlockLast(B) - 1)]]

\* lines 139-148: the rows whose timestamp parsed, and the grid of the file
ParsedRows(rows) == SelectSeq(rows, LAMBDA r : ~r.datetime.nat)

\* the groups of the model's files, and the outcome of STL in each
StlGroups == {<<st, "O3">> : st \in Sites}
NoChoice == [key \in StlGroups |-> DefaultKind]

\* lines 156-176: one group of the file
GroupResult(df, key, choice) ==
    LET lo == MinDt(df)
        hi == MaxDt(df)
        group == DropDuplicates(Grouped(df, key))
        s == Reindex(group, lo, hi)
        stl_series == FinalSeries(s, OutcomeOf(choice[key], hi - lo + 1))
    IN  [site |-> key[1], item |-> key[2], series |-> s, stl_series |-> stl_series,
         reports |-> GroupGapReports(s, key, lo),
         df_res |-> [i \in 1..Len(stl_series) |->
                        [datetime |-> lo + i - 1, site |-> key[1], item |-> key[2],
                         anomaly_stl |-> stl_series[i]]]]

NoTable == [written |-> FALSE, rows |-> <<>>]
NotCalled ==
    [called |-> FALSE, status |-> "none", choice |-> NoChoice, groups |-> <<>>,
     stl_csv |-> NoTable, gap_report |-> NoTable]
FileResult(status, choice, groups, csv, report) ==
    [called |-> TRUE, status |-> status, choice |-> choice, groups |-> groups,
     stl_csv |-> csv, gap_report |-> report]

\* process_file, lines 119-190.  "skipped": the return of line 133 or 143;
\* "raised": an exception leaves process_file; "written": the end is reached.
ProcessFile(file, choice) ==
    LET df == ParsedRows(file.rows)
        keys == GroupKeys(df)
        groups == [k \in 1..Len(keys) |-> GroupResult(df, keys[k], choice)]
        processed_rows == Concat([k \in 1..Len(groups) |-> groups[k].df_res])
        all_reports == Concat([k \in 1..Len(groups) |-> groups[k].reports])
        final_df == SelectSeq(processed_rows, LAMBDA r : ~r.anomaly_stl.isna)
    IN  IF ~file.readable \/ ~file.target
        THEN FileResult("skipped", NoChoice, <<>>, NoTable, NoTable)
        ELSE IF df = <<>>
        THEN \* line 148: pd.date_range(start=NaT, end=NaT) raises ValueError
             FileResult("raised", NoChoice, <<>>, NoTable, NoTable)
        ELSE IF \E k \in 1..Len(keys) : HasDuplicates(DropDuplicates(Grouped(df, keys[k])))
        THEN \* line 162: reindex raises on duplicate labels
             FileResult("raised", NoChoice, <<>>, NoTable, NoTable)
        ELSE FileResult("written", choice, groups,
                        [written |-> TRUE, rows |-> final_df],
                        [written |-> all_reports # <<>>, rows |-> all_reports])

\* the groups on which the decomposition is attempted
StlAttempted(file) ==
    LET df == ParsedRows(file.rows)
    IN  IF ~file.readable \/ ~file.target \/ df = <<>> THEN {}
        ELSE {key \in StlGroups :
                /\ GroupOf(df, key) # <<>>
                /\ StlPath(Reindex(DropDuplicates(Grouped(df, key)), MinDt(df), MaxDt(df)),
                           OutcomeOf(DefaultKind, 0)) = "stl"}
Choices(file) ==
    {c \in [StlGroups -> OutcomeKinds] :
        \A key \in StlGroups : key \notin StlAttempted(file) => c[key] = DefaultKind}

\* lines 203-211: the batch stops at once when no CSV is found
BatchStart ==
    /\ stl_batch.state = "start"
    /\ stl_batch' = IF stl_files = <<>> THEN [state |-> "exit", i |-> 0]
                    ELSE [state |-> "running", i |-> 1]
    /\ UNCHANGED <<stl_files, stl_results>>
    /\ UNCHANGED <<series, final_series, gap_reports, stl_path, reapplied>>
    /\ UNCHANGED anomVars
    /\ UNCHANGED mainVars

\* lines 215-216: one turn of `for f in tqdm(files): process_file(f)`; an
\* exception that leaves process_file leaves the loop and ends the program
ProcessFileCall ==
    /\ stl_batch.state = "running"
    /\ stl_batch.i <= Len(stl_files)
    /\ \E choice \in Choices(stl_files[stl_batch.i]) :
          \E res \in {ProcessFile(stl_files[stl_batch.i], choice)} :
              /\ stl_results' = [stl_results EXCEPT ![stl_batch.i] = res]
              /\ stl_batch' = IF res.status = "raised"
                              THEN [state |-> "crashed", i |-> stl_batch.i]
                              ELSE [state |-> "running", i |-> stl_batch.i + 1]
    /\ UNCHANGED stl_files
    /\ UNCHANGED <<series, final_series, gap_reports, stl_path, reapplied>>
    /\ UNCHANGED anomVars
    /\ UNCHANGED mainVars

\* line 218: the loop has gone through every file
BatchDone ==
    /\ stl_batch.state = "running"
    /\ stl_batch.i > Len(stl_files)
    /\ stl_batch' = [state |-> "done", i |-> stl_batch.i]
    /\ UNCHANGED <<stl_files, stl_results>>
    /\ UNCHANGED <<series, final_series, gap_reports, stl_path, reapplied>>
    /\ UNCHANGED anomVars
    /\ UNCHANGED mainVars

BatchNext == BatchStart \/ ProcessFileCall \/ BatchDone

\* a batch of one file
FileInit ==
    /\ stl_files \in {<<f>> : f \in StlFiles}
    /\ stl_batch = [state |-> "start", i |-> 0]
    /\ stl_results = <<NotCalled>>
    /\ SeriesIdle
    /\ AnomIdle
    /\ MainIdle

SpecFile == FileInit /\ [][BatchNext]_vars

\* The files of the batch checks: unreadable, without target column, with
\* no parseable timestamp, with a break gap, and with a single row.
AllNaTCsv == CsvFile(<<StlRow(NaT, "Tainan", Num(0))>>)
GapCsv == CsvFile(<<StlRow(Dt(T0), "Tainan", Num(0)), StlRow(Dt(T0 + 4), "Tainan", Num(Scale))>>)
PlainCsv == CsvFile(<<StlRow(Dt(T0), "Kinmen", Num(Scale))>>)
BatchFileKinds == {UnreadableCsv, NoTargetCsv, AllNaTCsv, GapCsv, PlainCsv}

BatchInit ==
    /\ stl_files \in UNION {[1..n -> BatchFileKinds] : n \in 0..MaxBatchFiles}
    /\ stl_batch = [state |-> "start", i |-> 0]
    /\ stl_results = [k \in 1..Len(stl_files) |-> NotCalled]
    /\ SeriesIdle
    /\ AnomIdle
    /\ MainIdle

SpecBatch == BatchInit /\ [][BatchNext]_vars

(***************************************************************************)
(* The pipeline as a whole: either stage, from any of its inputs           *)
(***************************************************************************)
Init == StlInit \/ BoundaryInit \/ FileInit \/ BatchInit \/ AnomInit \/ CoverageInit \/ RangeInit \/ RegionInit \/ BaselineInit \/ PoolInit
Next == ProcessSeriesStl \/ ReapplySeriesStl \/ BatchNext \/ ProcessAndPlotCall \/ ProcessAndPlotAgain \/ PoolNext
Spec == Init /\ [][Next]_vars

(***************************************************************************)
(* Stage 2: the claims about process_series_stl                            *)
(***************************************************************************)
\* the maximal runs of consecutive missing positions of s, as <<first, last>>
MaximalRuns(s) ==
    {r \in (1..Len(s)) \X (1..Len(s)) :
        /\ r[1] <= r[2]
        /\ \A i \in r[1]..r[2] : s[i].isna
        /\ (r[1] = 1 \/ ~s[r[1] - 1].isna)
        /\ (r[2] = Len(s) \/ ~s[r[2] + 1].isna)}
RunLen(r) == r[2] - r[1] + 1
LongRuns(s) == {r \in MaximalRuns(s) : RunLen(r) > TOLERANCE_HOURS}
ShortRuns(s) == {r \in MaximalRuns(s) : RunLen(r) <= TOLERANCE_HOURS}
StlReturned == stl_path \notin {"none", "idle"}

\* C1 (as claimed): the returned series is missing at every position of every
\* maximal run of missing timestamps longer than TOLERANCE_HOURS.
C1_LongRunsStayMissing ==
    StlReturned =>
        \A r \in LongRuns(series) : \A i \in r[1]..r[2] : final_series[i].isna

\* C2 (as claimed): when the series has a defined value, the returned series has
\* no missing value in any maximal run of at most TOLERANCE_HOURS missing
\* timestamps, at the start, in the interior or at the end of the series.
C2_ShortRunsFilled ==
    (StlReturned /\ \E i \in 1..Len(series) : ~series[i].isna) =>
        \A r \in ShortRuns(series) : \A i \in r[1]..r[2] : ~final_series[i].isna

\* the GapReport the claim expects for the run r
ExpectedReport(r) ==
    [duration_hours |-> RunLen(r),
     start_time |-> Strftime(IndexAt(r[1])),
     end_time |-> Strftime(IndexAt(r[2]))]

\* C3 (as claimed): exactly one GapReport per maximal run longer than
\* TOLERANCE_HOURS, carrying its length and its first and last timestamp, and
\* no other GapReport; also for a series that is missing everywhere.
C3_OneReportPerLongRun ==
    StlReturned =>
        /\ \A r \in LongRuns(series) :
              Cardinality({k \in 1..Len(gap_reports) :
                              gap_reports[k] = ExpectedReport(r)}) = 1
        /\ \A k \in 1..Len(gap_reports) :
              \E r \in LongRuns(series) : gap_reports[k] = ExpectedReport(r)

\* C4: every position that is missing in the interpolated series is missing in
\* the returned series, so the zero placeholder of line 96 never shows, on the
\* decomposition path, the short-series path and the failure path.
C4_PlaceholderNeverLeaks ==
    StlReturned =>
        \A i \in 1..Len(series) :
            Interpolate(series, TOLERANCE_HOURS)[i].isna => final_series[i].isna

\* C4 witness: the decomposition ran over a series that still had a missing
\* position after interpolation, and that position came back missing.
C4_Witness ==
    /\ stl_path = "stl"
    /\ \E i \in 1..Len(series) :
          /\ Interpolate(series, TOLERANCE_HOURS)[i].isna
          /\ final_series[i].isna

(***************************************************************************)
(* Stage 1: the claims about process_and_plot                              *)
(***************************************************************************)
Called == ret \notin {"none", "idle"}
RawIdx == 1..Len(raw_file.rows)
Raw(k) == raw_file.rows[k]

\* the raw rows that belong to the clean set: the timestamp parses, the value is
\* a number, and the number is within the item's range when the item has one
IsCleanRaw(k) ==
    /\ ~Raw(k).datetime.nat
    /\ ~ToNumeric(Raw(k).value).isna
    /\ (HasItemInfo(Raw(k).item) =>
            /\ ToNumeric(Raw(k).value).v >= ItemMin(Raw(k).item)
            /\ ToNumeric(Raw(k).value).v <= ItemMax(Raw(k).item))
CleanIdx == {k \in RawIdx : IsCleanRaw(k)}

\* the hourly grid of the file: every hour between two parsed timestamps
Grid ==
    {h \in Hours : \E a, b \in RawIdx :
        /\ ~Raw(a).datetime.nat /\ ~Raw(b).datetime.nat
        /\ Raw(a).datetime.t <= h /\ h <= Raw(b).datetime.t}

\* the baseline entries stored under the key of raw row k
BaselineIdx(k) ==
    {e \in 1..Len(global_avg_lookup) :
        /\ global_avg_lookup[e].item = Raw(k).item
        /\ global_avg_lookup[e].site = Raw(k).site
        /\ global_avg_lookup[e].day_of_year * 24 + global_avg_lookup[e].hour
              = Raw(k).datetime.t + 24}

\* the anomaly records of the observation that raw row k carries
RecordsOf(k) ==
    {m \in 1..Len(merged) :
        /\ merged[m].datetime = Raw(k).datetime.t
        /\ merged[m].site = Raw(k).site
        /\ merged[m].item = Raw(k).item
        /\ merged[m].value = ToNumeric(Raw(k).value).v}
\* the clean raw rows that carry the same observation as raw row k
SameObservation(k) == {j \in CleanIdx : Raw(j) = Raw(k)}

\* C5: every anomaly record is the observed value of a clean raw row minus a
\* baseline value stored under that row's (item, site, day_of_year, hour), with
\* nothing clamped; and the observation "35.5" of O3 at Tainan on day 45, hour
\* 10, against the baseline 30.0, gives the anomaly 5.5.
C5_AnomalyIsDifference ==
    Called =>
        /\ \A m \in 1..Len(merged) :
              \E k \in CleanIdx : \E e \in BaselineIdx(k) :
                  /\ m \in RecordsOf(k)
                  /\ merged[m].anomaly
                        = ToNumeric(Raw(k).value).v - global_avg_lookup[e].avg_value
        /\ \A k \in RawIdx :
              (Raw(k) = [datetime |-> Dt(44 * 24 + 10), site |-> "Tainan",
                         item |-> "O3", value |-> "35.5"])
                  => \E m \in RecordsOf(k) : merged[m].anomaly = 55

\* C5 witness: a record with a negative anomaly and the record of the scenario
C5_Witness ==
    /\ \E m \in 1..Len(merged) : merged[m].anomaly < 0
    /\ \E m \in 1..Len(merged) :
          /\ merged[m].datetime = 44 * 24 + 10
          /\ merged[m].site = "Tainan"
          /\ merged[m].anomaly = 55

\* C6 (as claimed): an observation has an anomaly record if and only if it is
\* clean and the baseline index has an entry for its key, and then it has
\* exactly one record per clean row that carries it.
C6_InnerJoinExactlyOne ==
    Called =>
        /\ \A m \in 1..Len(merged) :
              \E k \in CleanIdx : m \in RecordsOf(k) /\ BaselineIdx(k) # {}
        /\ \A k \in CleanIdx :
              Cardinality(RecordsOf(k)) =
                  IF BaselineIdx(k) = {} THEN 0 ELSE Cardinality(SameObservation(k))

\* the clean rows of (site, item) that have no baseline entry
Unmatched(s, i) ==
    {k \in CleanIdx : Raw(k).site = s /\ Raw(k).item = i /\ BaselineIdx(k) = {}}

\* C7 (as claimed): for each (station, item) with a clean observation that has
\* no baseline entry, one baseline_missing finding with the count of them.
C7_BaselineMissingReported ==
    (Called /\ raw_file.readable) =>
        \A s \in Sites, i \in Items :
            Unmatched(s, i) # {} =>
                Cardinality({f \in 1..Len(report_list) :
                                /\ report_list[f].type = "baseline_missing"
                                /\ report_list[f].site = s
                                /\ report_list[f].item = i
                                /\ report_list[f].count = Cardinality(Unmatched(s, i))})
                    = 1

\* C8 (as claimed): the major events of a file are the hours of its grid that
\* no clean observation carries.
C8_MajorEventsAreSilentHours ==
    (Called /\ raw_file.readable) =>
        major_events = Grid \ {Raw(k).datetime.t : k \in CleanIdx}

\* the rows of the clean (site, item) group, and the grid hours it covers
GroupRows(s, i) == {k \in CleanIdx : Raw(k).site = s /\ Raw(k).item = i}
GroupMissingHours(s, i) ==
    Grid \ {Raw(k).datetime.t : k \in GroupRows(s, i)}
MissingFindingsOf(s, i) ==
    {f \in 1..Len(report_list) :
        /\ report_list[f].type = "missing_timestamps"
        /\ report_list[f].site = s
        /\ report_list[f].item = i}

\* C9: a (station, item) group of clean observations gets a missing_timestamps
\* finding exactly when it has fewer rows than the grid has hours, and the count
\* reported is the number of grid hours the group has no observation for, also
\* when the group holds a timestamp twice.
C9_MissingTimestamps ==
    Called =>
        \A s \in Sites, i \in Items :
            GroupRows(s, i) # {} =>
                /\ Cardinality(MissingFindingsOf(s, i)) =
                      IF Cardinality(GroupRows(s, i)) < Cardinality(Grid) THEN 1 ELSE 0
                /\ \A f \in MissingFindingsOf(s, i) :
                      report_list[f].count = Cardinality(GroupMissingHours(s, i))

\* C9 witness: a finding for a group that holds a timestamp twice, in a file
\* with an hour at which the whole network is silent
C9_Witness ==
    \E s \in Sites, i \in Items :
        /\ MissingFindingsOf(s, i) # {}
        /\ \E a, b \in GroupRows(s, i) : a # b /\ Raw(a).datetime = Raw(b).datetime
        /\ major_events # {}

\* the raw rows whose value is not null and is not a number
InvalidIdx == {k \in RawIdx : ~IsNullLit(Raw(k).value) /\ ToNumeric(Raw(k).value).isna}
InvalidFindings == {f \in 1..Len(report_list) : report_list[f].type = "invalid_text"}
InvalidTextExact ==
    /\ Cardinality(InvalidFindings) = Cardinality(InvalidIdx)
    /\ \A k \in InvalidIdx :
          Cardinality({f \in InvalidFindings :
                          /\ report_list[f].site = Raw(k).site
                          /\ report_list[f].item = Raw(k).item
                          /\ report_list[f].lit = Raw(k).value})
              = Cardinality({j \in InvalidIdx :
                                /\ Raw(j).site = Raw(k).site
                                /\ Raw(j).item = Raw(k).item
                                /\ Raw(j).value = Raw(k).value})
    \* no row of the clean set comes from a row that is not clean
    /\ \A h \in Hours, s \in Sites, i \in Items :
          Cardinality({c \in 1..Len(df_clean) :
                          /\ df_clean[c].datetime = h
                          /\ df_clean[c].site = s
                          /\ df_clean[c].item = i})
              = Cardinality({k \in CleanIdx :
                                /\ Raw(k).datetime.t = h
                                /\ Raw(k).site = s
                                /\ Raw(k).item = i})

RawCopies(k) == Cardinality({j \in RawIdx : Raw(j) = Raw(k)})
CleanCopies(k) ==
    Cardinality({c \in 1..Len(df_clean) :
                    /\ df_clean[c].datetime = Raw(k).datetime.t
                    /\ df_clean[c].site = Raw(k).site
                    /\ df_clean[c].item = Raw(k).item
                    /\ df_clean[c].value = ToNumeric(Raw(k).value).v})
Checkable(k) == ~Raw(k).datetime.nat /\ ~ToNumeric(Raw(k).value).isna
OutOfRangeFindings(i) ==
    {f \in 1..Len(report_list) :
        report_list[f].type = "out_of_range" /\ report_list[f].item = i}
\* the rows of item i whose number is outside [0, 600]
OutOfRangeIdx(i) ==
    {k \in RawIdx :
        /\ Checkable(k)
        /\ Raw(k).item = i
        /\ (ToNumeric(Raw(k).value).v < 0 \/ ToNumeric(Raw(k).value).v > 6000)}

\* C11: for O3, whose ItemSpec is [0, 600], a row below 0 or above 600 is not
\* in the clean set, a row with 0 <= value <= 600 (limits included) stays in
\* it, and the out_of_range findings of the item group number min(5, n) for n
\* rows out of range: the cap of 5 limits the findings, never the exclusion.
C11_RangeCheck ==
    Called =>
        /\ \A k \in RawIdx :
              (Checkable(k) /\ Raw(k).item = "O3") =>
                  CleanCopies(k) = IF k \in OutOfRangeIdx("O3") THEN 0 ELSE RawCopies(k)
        /\ Cardinality(OutOfRangeFindings("O3")) <= 5
        /\ Cardinality(OutOfRangeFindings("O3"))
              = Min(5, Cardinality(OutOfRangeIdx("O3")))

\* C11 witness: more than five rows out of range, five findings, none of the
\* rows in the clean set, and both limits in the clean set
C11_Witness ==
    /\ Called
    /\ Cardinality(OutOfRangeIdx("O3")) > 5
    /\ Cardinality(OutOfRangeFindings("O3")) = 5
    /\ \A c \in 1..Len(df_clean) : df_clean[c].value >= 0 /\ df_clean[c].value <= 6000
    /\ \E c \in 1..Len(df_clean) : df_clean[c].value = 0
    /\ \E c \in 1..Len(df_clean) : df_clean[c].value = 6000

\* C12: a row of "XX", an item without ItemSpec, whose timestamp parses and
\* whose value is a number, is in the clean set whatever the number, and no
\* out_of_range finding names the item.
C12_UnknownItemPassesThrough ==
    Called =>
        /\ \A k \in RawIdx :
              (Checkable(k) /\ Raw(k).item = "XX") => CleanCopies(k) = RawCopies(k)
        /\ OutOfRangeFindings("XX") = {}

\* C12 witness: a row of "XX" with 601, beyond every limit of the file's other
\* item, in the clean set of a file whose O3 rows were range-checked
C12_Witness ==
    /\ Called
    /\ \E c \in 1..Len(df_clean) : df_clean[c].item = "XX" /\ df_clean[c].value = 6010
    /\ OutOfRangeFindings("O3") # {}

\* the rows of (site, item) whose timestamp parses, and the count reported by
\* the null_value findings of (site, item)
ParsedIdx(s, i) ==
    {k \in RawIdx : ~Raw(k).datetime.nat /\ Raw(k).site = s /\ Raw(k).item = i}
NullFindingsOf(s, i) ==
    {f \in 1..Len(report_list) :
        /\ report_list[f].type = "null_value"
        /\ report_list[f].site = s
        /\ report_list[f].item = i}
NullCounted(s, i) ==
    IF NullFindingsOf(s, i) = {} THEN 0
    ELSE report_list[CHOOSE f \in NullFindingsOf(s, i) : TRUE].count

\* C13 (as claimed): a raw row whose timestamp does not parse is not in the
\* clean set, is not counted in a null_value finding and is not reported as
\* invalid_text: the findings count the rows with a parsed timestamp only.
C13_UnparseableRowsDropped ==
    (Called /\ raw_file.readable) =>
        /\ \A c \in 1..Len(df_clean) :
              \E k \in RawIdx :
                  /\ ~Raw(k).datetime.nat
                  /\ df_clean[c].datetime = Raw(k).datetime.t
                  /\ df_clean[c].site = Raw(k).site
                  /\ df_clean[c].item = Raw(k).item
        /\ \A s \in Sites, i \in Items :
              /\ Cardinality(NullFindingsOf(s, i)) <= 1
              /\ NullCounted(s, i)
                    = Cardinality({k \in ParsedIdx(s, i) : IsNullLit(Raw(k).value)})
              /\ Cardinality({f \in InvalidFindings :
                                  report_list[f].site = s /\ report_list[f].item = i})
                    = Cardinality(ParsedIdx(s, i) \cap InvalidIdx)

\* the anomaly records and the regional averages of (hour, item, region)
RegionRecords(h, i, g) ==
    {m \in 1..Len(merged) :
        /\ merged[m].datetime = h
        /\ merged[m].item = i
        /\ merged[m].site \in {"Shanhua", "Tainan", "Taitung"}
        /\ g = (IF merged[m].site = "Taitung" THEN "E" ELSE "S")}
RegionAverages(h, i, g) ==
    {a \in 1..Len(region_avg) :
        /\ region_avg[a].datetime = h
        /\ region_avg[a].item = i
        /\ region_avg[a].region = g}
RECURSIVE SumAnomalies(_)
SumAnomalies(S) ==
    IF S = {} THEN 0
    ELSE LET m == CHOOSE x \in S : TRUE
         IN  merged[m].anomaly + SumAnomalies(S \ {m})

\* C14: for every (hour, item, region) there is a regional average exactly when
\* a station of the region has an anomaly record at that hour for that item,
\* and then there is one, labelled AVG_<region>; its value is the sum of those
\* records' anomalies over their number, which lies between the smallest and
\* the largest of them, whether or not every station of the region has a record.
C14_RegionalMean ==
    Called =>
        /\ \A a \in 1..Len(region_avg) :
              /\ region_avg[a].datetime \in Hours
              /\ region_avg[a].item \in Items
              /\ region_avg[a].region \in Regions
        /\ \A h \in Hours, i \in Items, g \in Regions :
              LET recs == RegionRecords(h, i, g)
                  avgs == RegionAverages(h, i, g)
              IN  /\ Cardinality(avgs) = IF recs = {} THEN 0 ELSE 1
                  /\ \A a \in avgs :
                        LET v == region_avg[a].anomaly
                        IN  /\ v.den > 0
                            /\ v.num * Cardinality(recs) = SumAnomalies(recs) * v.den
                            /\ \E lo, hi \in recs :
                                  /\ merged[lo].anomaly * v.den <= v.num
                                  /\ v.num <= merged[hi].anomaly * v.den
                            /\ region_avg[a].site = (IF g = "S" THEN "AVG_S" ELSE "AVG_E")

\* C14 witness: at hour 10 both stations of region S have a record and the mean
\* lies strictly between them; at hour 11 only Tainan has one and the average
\* of S is that record's anomaly, which is not zero
C14_Witness ==
    /\ Called
    /\ \E a \in RegionAverages(T0, "O3", "S") :
          /\ \E m \in RegionRecords(T0, "O3", "S") : merged[m].site = "Shanhua"
          /\ \E lo, hi \in RegionRecords(T0, "O3", "S") :
                /\ merged[lo].anomaly * region_avg[a].anomaly.den < region_avg[a].anomaly.num
                /\ region_avg[a].anomaly.num < merged[hi].anomaly * region_avg[a].anomaly.den
    /\ \E a \in RegionAverages(T0 + 1, "O3", "S") :
          /\ \A m \in RegionRecords(T0 + 1, "O3", "S") : merged[m].site = "Tainan"
          /\ region_avg[a].anomaly.den = 1
          /\ region_avg[a].anomaly.num # 0

\* C15 (as claimed): a file whose anomaly records all come from stations that
\* are in no region has no regional average, is processed to the normal end,
\* has its anomaly CSV written and gets no critical-error artifact.
C15_UnmappedStationsNoError ==
    (/\ Called
     /\ merged # <<>>
     /\ \A m \in 1..Len(merged) : merged[m].site = "Kinmen")
        => /\ region_avg = <<>>
           /\ ret = "plot_count"
           /\ "anomaly_csv" \in outputs
           /\ "critical_error" \notin outputs

\* the file failed as a whole: it could not be read, or it has rows and not one
\* of their timestamps parses
FileLevelFailure ==
    \/ ~raw_file.readable
    \/ (RawIdx # {} /\ \A k \in RawIdx : Raw(k).datetime.nat)

\* C17 (as claimed): a file that fails at file level ends with a critical-error
\* artifact.
C17_FailedFileHasErrorArtifact ==
    (Called /\ FileLevelFailure) => "critical_error" \in outputs

(***************************************************************************)
(* Stage 1: the claims about the baseline index and main()                 *)
(***************************************************************************)
Loaded == main_pc \notin {"start", "idle", "no_history"}
SameKey(a, b) ==
    /\ a.item = b.item
    /\ a.site = b.site
    /\ a.day_of_year = b.day_of_year
    /\ a.hour = b.hour

\* C20 (as claimed): in the index that load_and_transform_averages returns,
\* every (item, site, day_of_year, hour) key occurs at most once.
C20_IndexKeysUnique ==
    Loaded =>
        \A a, b \in 1..Len(df_avg_lookup) :
            SameKey(df_avg_lookup[a], df_avg_lookup[b]) => a = b

PoolStarted == main_pc \in {"pool", "done"}
Done(k) == futures[k].state \in {"finished", "collected"}
StemOf(k) == pool_files[k].path.stem

\* what process_and_plot gives for file k when it is run on its own, against
\* the index main() built
AloneResults(k) ==
    {ProcessAndPlot(pool_files[k].content, df_avg_lookup, ok) : ok \in BOOLEAN}
ArtifactsMatch(k, res) ==
    \A kind \in OutputKinds :
        LET a == artifacts[<<kind, StemOf(k)>>]
        IN  /\ a.exists = (kind \in res.outputs)
            /\ a.exists => (a.by = k /\ a.data = ArtifactData(kind, res))
OutputsAsAlone(k) ==
    \E res \in AloneResults(k) : res.ret = futures[k].ret /\ ArtifactsMatch(k, res)

\* the pool is at work: every running task is held by one started worker, a
\* pending task has a worker that is idle, busy with a task that will return,
\* or still to start, and a task that has returned can be collected
PoolAlive ==
    /\ \A k \in 1..Len(futures) :
          futures[k].state = "running" =>
              Cardinality({w \in Workers : workers[w].started /\ workers[w].task = k}) = 1
    /\ \A w \in Workers : workers[w].task # 0 =>
          /\ workers[w].started
          /\ workers[w].task \in 1..Len(futures)
          /\ futures[workers[w].task].state = "running"
    /\ \/ \A k \in 1..Len(futures) : futures[k].state = "collected"
       \/ \E k \in 1..Len(futures) : futures[k].state \in {"running", "finished"}
       \/ \E w \in Workers : ~workers[w].started \/ workers[w].task = 0

\* C16: a task that ended in an exception has left the critical-error artifact
\* of its file; whatever failed, every other task that has returned has the
\* outputs its file gives on its own; the pool stays at work while main()
\* waits in it; and main() leaves the pool only when every submitted file has
\* been processed and its result taken.
C16_FailureIsolated ==
    PoolStarted =>
        /\ \A k \in 1..Len(futures) :
              (Done(k) /\ futures[k].ret = "error") =>
                  /\ artifacts[<<"critical_error", StemOf(k)>>].exists
                  /\ artifacts[<<"critical_error", StemOf(k)>>].by = k
                  /\ \A j \in 1..Len(futures) : (j # k /\ Done(j)) => OutputsAsAlone(j)
        /\ Len(futures) = Len(pool_files)
        /\ main_pc = "pool" => PoolAlive
        /\ main_pc = "done" => \A k \in 1..Len(futures) : futures[k].state = "collected"

\* C16 witness: main() is through; the first file was unreadable, a later file
\* was processed to the end and has its anomaly CSV
C16_Witness ==
    /\ main_pc = "done"
    /\ \E j, k \in 1..Len(futures) :
          /\ j < k
          /\ ~pool_files[j].content.readable
          /\ futures[j].ret = "error"
          /\ artifacts[<<"critical_error", StemOf(j)>>].exists
          /\ futures[k].ret = "plot_count"
          /\ artifacts[<<"anomaly_csv", StemOf(k)>>].exists

\* C18: every file under output_root was written by the task of the file whose
\* name it carries and holds what that file gives on its own; every task that
\* has returned has exactly the outputs its file gives on its own, in whatever
\* order the tasks ran and returned; and no two tasks share a file name.
C18_OutputsDependOnFileOnly ==
    PoolStarted =>
        /\ \A p \in DOMAIN artifacts :
              artifacts[p].exists =>
                  /\ artifacts[p].by \in 1..Len(futures)
                  /\ Done(artifacts[p].by)
                  /\ p[2] = StemOf(artifacts[p].by)
                  /\ \E res \in AloneResults(artifacts[p].by) :
                        /\ p[1] \in res.outputs
                        /\ artifacts[p].data = ArtifactData(p[1], res)
        /\ \A k \in 1..Len(futures) : Done(k) => OutputsAsAlone(k)
        /\ \A j, k \in 1..Len(pool_files) : StemOf(j) = StemOf(k) => j = k

\* C18 witness: the second file's task has returned and been collected while
\* the first file's task is still running, and the first file's task returns
\* later into a directory that already holds the second file's outputs
C18_Witness ==
    /\ main_pc = "pool"
    /\ Len(futures) >= 2
    /\ futures[1].state = "running"
    /\ futures[2].state = "collected"
    /\ artifacts[<<"anomaly_csv", StemOf(2)>>].exists
    /\ artifacts[<<"report", StemOf(2)>>].exists
    /\ pool_files[1].content # pool_files[2].content

\* C19: the index main() holds is the one load_and_transform_averages built
\* from the sources; no worker is bound before the pool starts; and every
\* worker that has started holds, whatever tasks it has run, an index equal to
\* the one main() handed over.
C19_WorkerIndexUnchanged ==
    /\ Loaded => df_avg_lookup = LoadAverages(avg_sources).index
    /\ main_pc \in {"start", "loaded", "no_history"} =>
          \A w \in Workers : ~workers[w].started
    /\ PoolStarted =>
          \A w \in Workers :
              workers[w].started => workers[w].global_avg_lookup = df_avg_lookup

\* C19 witness: the only worker that started has run a task that failed and a
\* task that succeeded, and its index still has the entries of the table
C19_Witness ==
    /\ PoolStarted
    /\ workers[1].started
    /\ ~workers[2].started
    /\ workers[1].task = 0
    /\ \E j, k \in 1..Len(futures) :
          /\ Done(j) /\ futures[j].ret = "error"
          /\ Done(k) /\ futures[k].ret = "plot_count"
    /\ Len(workers[1].global_avg_lookup) = 2

\* C21 (as claimed): every entry of the returned index has day_of_year in
\* 1..366 and hour in 0..23, whatever labels the tables carry, and a number as
\* its value.
C21_IndexKeysInCalendar ==
    Loaded =>
        \A e \in 1..Len(df_avg_lookup) :
            /\ df_avg_lookup[e].day_of_year >= 1
            /\ df_avg_lookup[e].day_of_year <= 366
            /\ df_avg_lookup[e].hour >= 0
            /\ df_avg_lookup[e].hour <= 23
            /\ df_avg_lookup[e].avg_value \in Int

\* the source of item i gives nothing: no file, a file read_csv raises on, no
\* station column, or a column label that is not a pair of numbers
BadSource(i) ==
    \/ avg_sources[i].kind \in {"absent", "unreadable", "no_site"}
    \/ \E c \in 1..Len(avg_sources[i].labels) : avg_sources[i].labels[c] = "note"
\* the entries of item i in the index, and the index of item i's table alone
EntriesOf(i) == SelectSeq(df_avg_lookup, LAMBDA e : e.item = i)
AloneIndex(i) ==
    IF BadSource(i) THEN <<>>
    ELSE SortIndex(MeltColumns(i, avg_sources[i].labels, avg_sources[i].table, 1))

\* C22: load_and_transform_averages always returns: None exactly when no item
\* has a usable table, else an index.  An item whose table is absent, unreadable,
\* without station column or with an unparseable label has no entry in the
\* index, and the entries of each other item are those its own table gives.
C22_PerItemGracefulFailure ==
    main_pc \in {"loaded", "no_history", "pool", "done"} =>
        /\ main_pc = "no_history" <=> (BadSource("CO") /\ BadSource("O3"))
        /\ \A e \in 1..Len(df_avg_lookup) : df_avg_lookup[e].item \in {"CO", "O3"}
        /\ \A i \in {"CO", "O3"} : EntriesOf(i) = AloneIndex(i)

\* C22 witness: the CO file is unreadable and the index holds the entries of
\* the O3 table, and only those
C22_Witness ==
    /\ main_pc = "loaded"
    /\ avg_sources["CO"].kind = "unreadable"
    /\ ~BadSource("O3")
    /\ Len(df_avg_lookup) > 0
    /\ \A e \in 1..Len(df_avg_lookup) : df_avg_lookup[e].item = "O3"

(***************************************************************************)
(* Claims about a second run of process_and_plot                           *)
(***************************************************************************)
\* the elements of a sequence
Range(q) == {q[k] : k \in 1..Len(q)}

C27_FindingsAlwaysWritten ==
    Called =>
        /\ report_list # <<>> => "report" \in outputs
        /\ major_events # {} => "major_event" \in outputs

(***************************************************************************)
(* Claims about process_series_stl applied to its own result               *)
(***************************************************************************)
\* the positions at which s is missing
MissingAt(s) == {i \in 1..Len(s) : s[i].isna}

\* C29: feeding the series returned by process_series_stl back into
\* process_series_stl yields a series that is missing at exactly the same
\* positions: a break gap never shrinks when the stage is run again.
C29_ReapplyKeepsMissing ==
    reapplied.done => MissingAt(reapplied.final_series) = MissingAt(final_series)

(***************************************************************************)
(* Claims about process_file and the batch loop of stage 2                 *)
(***************************************************************************)
FileIdx == 1..Len(stl_results)
\* process_file was called on file i and reached its end
Written(i) == stl_results[i].called /\ stl_results[i].status = "written"
\* file i holds at least one row whose timestamp parses
HasGrid(i) ==
    /\ stl_files[i].readable
    /\ stl_files[i].target
    /\ ParsedRows(stl_files[i].rows) # <<>>
GridOf(file) == FullRange(ParsedRows(file.rows))
InGroup(r, key) == r.site = key[1] /\ r.item = key[2]
KeyOf(g) == <<g.site, g.item>>

\* a group whose series is all missing, constant or too short for the
\* decomposition, or whose decomposition raised
Degenerate(g, choice) ==
    \/ \A p \in 1..Len(g.series) : g.series[p].isna
    \/ \A p, q \in 1..Len(g.series) :
          (~g.series[p].isna /\ ~g.series[q].isna) => g.series[p] = g.series[q]
    \/ Len(g.series) <= 2 * STL_PERIOD
    \/ choice[KeyOf(g)].raised

\* the file without the rows of one group, and a table without them
Without(file, key) ==
    [file EXCEPT !.rows = SelectSeq(file.rows, LAMBDA r : ~InGroup(r, key))]
OtherRows(rows, key) == SelectSeq(rows, LAMBDA r : ~InGroup(r, key))

\* the other groups of file i come out as from the file without group g
AsIfAbsent(i, g) ==
    LET alone == ProcessFile(Without(stl_files[i], KeyOf(g)), stl_results[i].choice)
    IN  /\ OtherRows(stl_results[i].stl_csv.rows, KeyOf(g)) = alone.stl_csv.rows
        /\ OtherRows(stl_results[i].gap_report.rows, KeyOf(g)) = alone.gap_report.rows

\* the file keeps its hourly grid when the rows of group g are taken out
SameGridWithout(i, g) ==
    /\ ParsedRows(Without(stl_files[i], KeyOf(g)).rows) # <<>>
    /\ GridOf(Without(stl_files[i], KeyOf(g))) = GridOf(stl_files[i])

\* C25 (as claimed): a failing or degenerate group never aborts the file, and
\* the output rows and gap reports of every other group are the same as if
\* that group were absent from the file.
C25_GroupsIndependent ==
    \A i \in FileIdx :
        (stl_results[i].called /\ HasGrid(i)) =>
            /\ Written(i)
            /\ \A k \in 1..Len(stl_results[i].groups) :
                  Degenerate(stl_results[i].groups[k], stl_results[i].choice)
                      => AsIfAbsent(i, stl_results[i].groups[k])

\* C25 (amended): a failing or degenerate group never aborts the file, and
\* the output rows and gap reports of every other group are the same as if
\* that group were absent, whenever the file has the same hourly grid
\* (minimum to maximum timestamp) without the rows of that group.
C25_GroupsIndependentOnSameGrid ==
    \A i \in FileIdx :
        (stl_results[i].called /\ HasGrid(i)) =>
            /\ Written(i)
            /\ \A k \in 1..Len(stl_results[i].groups) :
                  (/\ Degenerate(stl_results[i].groups[k], stl_results[i].choice)
                   /\ SameGridWithout(i, stl_results[i].groups[k]))
                      => AsIfAbsent(i, stl_results[i].groups[k])

\* the decomposition raised in one group of a file whose other group has
\* output rows and a gap report on the same grid
C25_Witness ==
    \E i \in FileIdx :
        /\ Written(i)
        /\ \E k \in 1..Len(stl_results[i].groups) :
              LET g == stl_results[i].groups[k]
              IN  /\ stl_results[i].choice[KeyOf(g)].raised
                  /\ SameGridWithout(i, g)
                  /\ OtherRows(stl_results[i].stl_csv.rows, KeyOf(g)) # <<>>
                  /\ OtherRows(stl_results[i].gap_report.rows, KeyOf(g)) # <<>>

\* the hours at which the written CSV of file i has a row of group g
HoursWritten(i, g) ==
    {stl_results[i].stl_csv.rows[k].datetime :
        k \in {j \in 1..Len(stl_results[i].stl_csv.rows) :
                  InGroup(stl_results[i].stl_csv.rows[j], KeyOf(g))}}

\* C26: the deseasonalized output of each (station, item) group of a file has
\* one point for every hour of the file's grid from minimum to maximum
\* timestamp, numeric or explicitly missing: break-gap hours are present in
\* the output as missing rather than absent.
C26_OutputCoversGrid ==
    \A i \in FileIdx :
        Written(i) =>
            \A k \in 1..Len(stl_results[i].groups) :
                HoursWritten(i, stl_results[i].groups[k]) = GridOf(stl_files[i])

\* C28: an exception raised while one anomaly CSV is processed does not stop
\* the batch: when the batch has ended, process_file has been called on
\* every file.
C28_BatchGoesOn ==
    stl_batch.state \in {"done", "crashed"} =>
        \A i \in FileIdx : stl_results[i].called

\* the rows of group g of file i whose timestamp is hour h, by position in
\* the file
RowsAt(i, g, h) ==
    {k \in 1..Len(stl_files[i].rows) :
        /\ InGroup(stl_files[i].rows[k], KeyOf(g))
        /\ stl_files[i].rows[k].datetime = Dt(h)}
FirstOf(K) == CHOOSE k \in K : \A j \in K : k <= j

\* C30: when a group holds several rows with the same timestamp, its series
\* takes the value of the first such row in file order, and reindexing onto
\* the hourly grid does not fail because of the duplicates.
C30_FirstDuplicateKept ==
    \A i \in FileIdx :
        (stl_results[i].called /\ HasGrid(i)) =>
            /\ Written(i)
            /\ \A k \in 1..Len(stl_results[i].groups) :
                  LET g == stl_results[i].groups[k]
                      lo == MinDt(ParsedRows(stl_files[i].rows))
                  IN  /\ Len(g.series) = Cardinality(GridOf(stl_files[i]))
                      /\ \A p \in 1..Len(g.series) :
                            g.series[p] =
                                IF RowsAt(i, g, lo + p - 1) = {} THEN NaN
                                ELSE stl_files[i].rows[FirstOf(RowsAt(i, g, lo + p - 1))].anomaly

\* a group with two rows of the same hour and different values, whose series
\* holds the value of the first
C30_Witness ==
    \E i \in FileIdx :
        /\ Written(i)
        /\ \E k \in 1..Len(stl_results[i].groups) :
              LET g == stl_results[i].groups[k]
                  lo == MinDt(ParsedRows(stl_files[i].rows))
              IN  \E p \in 1..Len(g.series) :
                    \E a, b \in RowsAt(i, g, lo + p - 1) :
                        /\ a < b
                        /\ stl_files[i].rows[a].anomaly # stl_files[i].rows[b].anomaly
                        /\ g.series[p] = stl_files[i].rows[a].anomaly
====
